---- MODULE Spec2Model ----
(***************************************************************************)
(* Stereo reconstruction of DL1 events (lst1_magic_stereo_reco.py).        *)
(*                                                                         *)
(* The model follows stereo_reconstruction() step by step: loading and     *)
(* sorting the event table, the quality cuts, the LST-1/MAGIC pointing     *)
(* check, the event loop (filling the shared ArrayEventContainer, invoking *)
(* the reconstructor, writing the stereo columns row by row) and the save. *)
(*                                                                         *)
(* Angles are integers in arcmin on one great circle (pointing_alt = 0 for *)
(* every row), so that the angular separation of two pointings is their    *)
(* circular azimuth distance.  Mean directions are kept in sixths of an    *)
(* arcmin, so that the mean of one, two or three pointings is an integer.  *)
(*                                                                         *)
(* Further specifications share the module: MeanSpec applies the mean      *)
(* direction to azimuths drawn around the 0/360 deg boundary; MergeSpec    *)
(* follows main() of merging_runs.py (the merge scripts written and        *)
(* submitted, and the run of the chained MAGIC jobs in the cluster);       *)
(* StereoSpec follows main() of stereo_events.py; SplitSpec follows        *)
(* split_train_test of merging_runs.py; ImagesSpec follows save_images of  *)
(* mars_images_to_hdf5.py; NamesSpec applies out_file_h5 and               *)
(* out_file_h5_reco of filedir.py; HotSpec follows the calls of            *)
(* MAGICBadPixelsCalc.get_hotpixels.                                       *)
(***************************************************************************)
EXTENDS Integers, Sequences, FiniteSets, TLC

\* ---------------------------------------------------------------- bounds

\* Number of (obs_id, event_id) keys of the input file.
MaxEvents == 2

\* Telescope ids: 1 is LST-1, 2 and 3 are MAGIC-I and MAGIC-II.
TelIds == {1, 2, 3}

\* Pointing azimuths (arcmin) a row of the input file may carry: one arcmin on
\* either side of the 0/360 deg boundary.
PointingVals == {360 * 60 - 1, 1}

\* Values of config["stereo_reco"]["theta_uplim"] (arcmin).
ThetaLimits == {1}

\* 360 deg in arcmin, and in the unit of the mean directions.
FullCircle == 360 * 60
MeanScale == 2 * 3
FullCircle6 == MeanScale * FullCircle

\* The i-th key of the input file, as (obs_id, event_id); the event_id order
\* of the first two is the reverse of their (obs_id, event_id) order.
KeyOf(i) == IF i = 1 THEN <<1, 2>> ELSE <<2, i - 1>>
Keys == {KeyOf(i) : i \in 1..MaxEvents}

VARIABLES
    input_file,           \* the DL1 input file: whether it has a true_energy column
    config,               \* config["stereo_reco"]: theta_uplim
    magic_only_analysis,  \* the --magic-only argument
    tel_positions,        \* subarray.positions
    pc,                   \* position in stereo_reconstruction
    event_data,           \* the data frame, a sequence of rows (as read, in file order)
    is_simulation,        \* "true_energy" in event_data.columns
    check,                \* outcome of the pointing check
    theta_max,            \* np.max(theta), in sixths of arcmin; -1 before it is set
    event,                \* the ArrayEventContainer shared by all loop iterations
    i_evt,                \* loop variable of the event loop; -1 while unbound
    i_tel,                \* position in tel_ids of the write loop
    stereo_params,        \* event.dl2.stereo.geometry["HillasReconstructor"]
    reco_log,             \* keys for which hillas_reconstructor(event) was invoked
    output_file,          \* the events table of the output file
    summary,              \* what line 269 logged at the end of the loop
    n_checks,             \* number of calls of calculate_pointing_separation
    lon,                  \* calculate_mean_direction alone: the azimuths given
    mean_az,              \* calculate_mean_direction alone: the azimuth returned
    analysis_type,        \* semi-automatic script: the --analysis-type argument
    NSB_match,            \* semi-automatic script: config["general"]["NSB_matching"]
    source_list,          \* semi-automatic script: the sources to process
    nights,               \* stereo_events: the nights with coincident data, by source
    script_pc,            \* semi-automatic script: position in main
    i_source,             \* semi-automatic script: position in source_list
    cwd_scripts,          \* the bash scripts in the working directory
    sbatch_log,           \* the jobs submitted with sbatch, in order
    job_state,            \* the state of each submitted job in the cluster
    train_fraction,       \* split_train_test: the train fraction, in percent
    n_files,              \* split_train_test: the number of .h5 files of each node at the start
    node_files,           \* split_train_test: the .h5 files in protons/<node>
    train_files,          \* split_train_test: the .h5 files in protons/train/<node>
    test_files,           \* split_train_test: the .h5 files in protons_test/<node>
    i_node,               \* split_train_test: position in list_of_dir
    split_pc,             \* split_train_test: position in the loop body
    max_events,           \* save_images: the --max_events flag
    mars_filelist,        \* save_images: the input files, each with its batches
    i_file,               \* save_images: position in mars_filelist
    batch_no,             \* save_images: the number of batches iterated
    j_evt,                \* save_images: position in the batch
    events_count,         \* save_images: events_count
    writer,               \* save_images: the rows written per file and table
    images_pc,            \* save_images: position in the loops
    in_file,              \* out_file_h5, out_file_h5_reco: the argument, a sequence of characters
    out,                  \* out_file_h5, out_file_h5_reco: the name returned
    names_pc,             \* the function of filedir.py that was called
    sample_times,         \* MAGICBadPixelsCalc: self.sample_times, per telescope
    n_samples,            \* MAGICBadPixelsCalc: self.n_samples, per telescope
    is_update,            \* MAGICBadPixelsCalc: self.is_update, per telescope
    mon,                  \* the monitoring containers that the events hold
    hot_event,            \* get_hotpixels: the event of the last call
    hotpixel_mask,        \* get_hotpixels: the masks of the last call
    hot_pc,               \* get_hotpixels: the outcome of the last call
    n_calls               \* the number of calls of get_hotpixels

\* The state of a run of stereo_reconstruction.
v_reco == <<input_file, config, magic_only_analysis, tel_positions, pc, event_data,
            is_simulation, check, theta_max, event, i_evt, i_tel, stereo_params,
            reco_log, output_file, summary, n_checks>>

\* The state of a call of calculate_mean_direction on its own.
v_mean == <<lon, mean_az>>

\* The state of a run of a semi-automatic script (merging_runs, stereo_events).
v_scripts == <<analysis_type, NSB_match, source_list, nights, script_pc, i_source,
               cwd_scripts, sbatch_log, job_state>>

\* The state of a call of split_train_test.
v_split == <<train_fraction, n_files, node_files, train_files, test_files, i_node, split_pc>>

\* The state of a call of save_images.
v_images == <<max_events, mars_filelist, i_file, batch_no, j_evt, events_count,
              writer, images_pc>>

\* The state of a call of out_file_h5 or out_file_h5_reco.
v_names == <<in_file, out, names_pc>>

\* The state of a MAGICBadPixelsCalc and of the events it is given.
v_hot == <<sample_times, n_samples, is_update, mon, hot_event, hotpixel_mask,
           hot_pc, n_calls>>

\* The state outside a run of stereo_reconstruction, outside a call of
\* calculate_mean_direction, outside a run of a semi-automatic script and
\* outside a call of split_train_test.
v_others == <<v_mean, v_scripts, v_split, v_images, v_names, v_hot>>
v_not_mean == <<v_reco, v_scripts, v_split, v_images, v_names, v_hot>>
v_not_scripts == <<v_reco, v_mean, v_split, v_images, v_names, v_hot>>
v_not_split == <<v_reco, v_mean, v_scripts, v_images, v_names, v_hot>>
v_not_images == <<v_reco, v_mean, v_scripts, v_split, v_names, v_hot>>
v_not_names == <<v_reco, v_mean, v_scripts, v_split, v_images, v_hot>>
v_not_hot == <<v_reco, v_mean, v_scripts, v_split, v_images, v_names>>

vars == <<v_reco, v_others>>

\* ------------------------------------------------------------ rows, keys

RowKey(r) == <<r.obs_id, r.event_id>>

\* Order of the index (obs_id, event_id, tel_id) used by sort_index.
RowLess(a, b) ==
    \/ a.obs_id < b.obs_id
    \/ a.obs_id = b.obs_id /\ a.event_id < b.event_id
    \/ a.obs_id = b.obs_id /\ a.event_id = b.event_id /\ a.tel_id < b.tel_id

KeyLess(k, l) == k[1] < l[1] \/ (k[1] = l[1] /\ k[2] < l[2])

\* The stereo columns of a row before line 266 assigns them.
NoStereo == [assigned |-> FALSE]

MakeRow(k, t, kind) ==
    [obs_id |-> k[1], event_id |-> k[2], tel_id |-> t,
     pointing_az |-> kind.pointing_az, intensity |-> kind.intensity,
     stereo |-> NoStereo]

\* What a row of the input file may hold: an image failing the quality cuts,
\* or an image passing them, with its pointing.
RowKinds ==
    {[intensity |-> 0, pointing_az |-> 0]}
        \cup {[intensity |-> 1, pointing_az |-> p] : p \in PointingVals}

RECURSIVE Insert(_, _)
Insert(r, s) ==
    IF s = <<>> THEN <<r>>
    ELSE IF RowLess(r, Head(s)) THEN <<r>> \o s
    ELSE <<Head(s)>> \o Insert(r, Tail(s))

\* event_data.sort_index(): the rows in increasing (obs_id, event_id, tel_id).
RECURSIVE sort_index(_)
sort_index(s) == IF s = <<>> THEN <<>> ELSE Insert(Head(s), sort_index(Tail(s)))

Reverse(s) == [i \in 1..Len(s) |-> s[Len(s) + 1 - i]]

RECURSIVE SetToSeq(_)
SetToSeq(S) ==
    IF S = {} THEN <<>>
    ELSE LET x == CHOOSE y \in S : TRUE IN <<x>> \o SetToSeq(S \ {x})

\* The rows of a file whose row (k, t) holds kinds[<<k, t>>].
FileRows(kinds) ==
    sort_index(SetToSeq({MakeRow(k, t, kinds[<<k, t>>]) : k \in Keys, t \in TelIds}))

Range(s) == {s[i] : i \in 1..Len(s)}

\* ------------------------------------------------- directions and means

\* The signed offset of an azimuth difference, in (-180 deg, 180 deg].
SignedOffset(d) ==
    LET m == d % FullCircle
    IN  IF 2 * m > FullCircle THEN m - FullCircle ELSE m

RECURSIVE SumOffsets(_, _)
SumOffsets(vals, ref) ==
    IF vals = <<>> THEN 0
    ELSE SignedOffset(Head(vals) - ref) + SumOffsets(Tail(vals), ref)

RECURSIVE SumSeq(_)
SumSeq(vals) == IF vals = <<>> THEN 0 ELSE Head(vals) + SumSeq(Tail(vals))

\* The arithmetic mean of the azimuth values, in sixths of arcmin.
ArithmeticMean(vals) == (MeanScale * SumSeq(vals)) \div Len(vals)

\* The mean of the unit vectors of the azimuths vals (arcmin), as an azimuth in
\* sixths of arcmin: the directions are averaged around the first one, which is
\* what averaging their unit vectors gives for directions a few arcmin apart,
\* on either side of the 0/360 deg boundary.
MeanDirection(vals) ==
    (MeanScale * vals[1] + (MeanScale * SumOffsets(vals, vals[1])) \div Len(vals))
        % FullCircle6

\* astropy's angular_separation of two azimuths (sixths of arcmin) at alt = 0.
angular_separation(a, b) ==
    LET d == (a - b) % FullCircle6
    IN  IF 2 * d > FullCircle6 THEN FullCircle6 - d ELSE d

RECURSIVE SortedKeys(_)
SortedKeys(S) ==
    IF S = {} THEN <<>>
    ELSE LET k == CHOOSE x \in S : \A y \in S : x = y \/ KeyLess(x, y)
         IN  <<k>> \o SortedKeys(S \ {k})

\* The keys of the rows, one per row.
RowKeysAll(rows) == [i \in 1..Len(rows) |-> RowKey(rows[i])]

\* The groups of a groupby that yields its keys in decreasing order.
GroupKeysDescending(rows) == Reverse(SortedKeys({RowKey(rows[i]) : i \in 1..Len(rows)}))

\* The groups of groupby(["obs_id", "event_id"]): the distinct keys of the
\* rows, in increasing order.
GroupKeys(rows) == SortedKeys({RowKey(rows[i]) : i \in 1..Len(rows)})

RowsOfKey(rows, k) == SelectSeq(rows, LAMBDA r : RowKey(r) = k)

PointingsOf(rows) == [i \in 1..Len(rows) |-> rows[i].pointing_az]

\* The mean directions of the groups, listed from the last group to the first.
calculate_mean_direction_reversed(rows) ==
    LET gk == GroupKeysDescending(rows)
    IN  [i \in 1..Len(gk) |-> MeanDirection(PointingsOf(RowsOfKey(rows, gk[i])))]

\* calculate_mean_direction(lon=rows["pointing_az"], lat=rows["pointing_alt"]):
\* one mean direction per (obs_id, event_id) group, in the order of the groups.
calculate_mean_direction(rows) ==
    LET gk == GroupKeys(rows)
    IN  [i \in 1..Len(gk) |-> MeanDirection(PointingsOf(RowsOfKey(rows, gk[i])))]

\* get_stereo_events(event_data, quality_cuts): the rows passing the quality
\* cuts, here "intensity > 0".
get_stereo_events(rows) == SelectSeq(rows, LAMBDA r : r.intensity > 0)

\* ------------------------------------------------------ pointing check

\* np.unique(event_data.index.get_level_values("tel_id")).tolist()
RECURSIVE SortedInts(_)
SortedInts(S) ==
    IF S = {} THEN <<>>
    ELSE LET m == CHOOSE x \in S : \A y \in S : x <= y
         IN  <<m>> \o SortedInts(S \ {m})

TelIdList(rows) == SortedInts({rows[i].tel_id : i \in 1..Len(rows)})

\* Line 154 without its test of is_simulation.
NeedsCheckAnyData(sim, rows) == TelIdList(rows) # <<2, 3>>

\* The condition of line 154.
NeedsCheck(sim, rows) == ~sim /\ TelIdList(rows) # <<2, 3>>

df_lst(rows) == SelectSeq(rows, LAMBDA r : r.tel_id = 1)
df_magic(rows) == SelectSeq(rows, LAMBDA r : r.tel_id \in {2, 3})

\* df_magic.loc[multi_indices]: the MAGIC rows of the keys of the LST-1 rows,
\* key by key; a key without MAGIC rows raises KeyError.
RECURSIVE LocRows(_, _)
LocRows(rows, keys) ==
    IF keys = <<>> THEN <<>>
    ELSE RowsOfKey(rows, Head(keys)) \o LocRows(rows, Tail(keys))

LocRaises(rows) ==
    \E i \in 1..Len(df_lst(rows)) :
        RowsOfKey(df_magic(rows), RowKey(df_lst(rows)[i])) = <<>>

\* calculate_pointing_separation without the selection of line 89: the mean
\* directions of all MAGIC groups are paired with the LST-1 rows by position.
calculate_pointing_separation_all_groups(rows) ==
    LET lst == df_lst(rows)
        pointing_az_magic == calculate_mean_direction(df_magic(rows))
    IN  [i \in 1..Len(lst) |->
            angular_separation(MeanScale * lst[i].pointing_az, pointing_az_magic[i])]

\* calculate_pointing_separation(event_data): theta[i] is the separation of
\* the i-th LST-1 row and the i-th mean MAGIC direction.
calculate_pointing_separation(rows) ==
    LET lst == df_lst(rows)
        multi_indices == [i \in 1..Len(lst) |-> RowKey(lst[i])]
        magic == LocRows(df_magic(rows), multi_indices)
        pointing_az_magic == calculate_mean_direction(magic)
    IN  [i \in 1..Len(lst) |->
            angular_separation(MeanScale * lst[i].pointing_az, pointing_az_magic[i])]

\* np.max of a non-empty array.
SeqMax(s) == CHOOSE m \in Range(s) : \A x \in Range(s) : x <= m

\* Line 165 with theta_max left in degrees (no conversion to arcmin).
ExceedsLimitDegrees(tmax, uplim) == tmax > 60 * MeanScale * uplim

\* Line 165 with >= in place of >.
ExceedsLimitInclusive(tmax, uplim) == tmax >= MeanScale * uplim

\* The comparison of line 165.
ExceedsLimit(tmax, uplim) == tmax > MeanScale * uplim

\* --------------------------------------------- container, reconstructor

\* The value of a variable or field that has not been set.
Unset == 0 - 1

\* ArrayEventContainer(): no telescope entry, no array pointing.
ArrayEventContainer == [array_azimuth |-> Unset, tel |-> <<>>]

\* The CameraHillasParametersContainer built from a row: its moments are the
\* row's own, named by the row.
HillasOf(r) == [intensity |-> r.intensity, image |-> <<r.obs_id, r.event_id, r.tel_id>>]

\* The telescope entry written for a row: event.pointing.tel[tel_id] and
\* event.dl1.tel[tel_id].parameters.
TelEntry(r) == [azimuth |-> r.pointing_az, hillas |-> HillasOf(r)]

\* The inner loop of lines 208-230: the entries of the rows of df_evt are
\* assigned; the other entries of the container are left as they are.
FillTels(tel, df_evt) ==
    LET new == {df_evt[i].tel_id : i \in 1..Len(df_evt)}
        rowOf(t) == CHOOSE r \in Range(df_evt) : r.tel_id = t
    IN  [t \in (DOMAIN tel) \cup new |-> IF t \in new THEN TelEntry(rowOf(t)) ELSE tel[t]]

\* The result for an event the reconstructor cannot reconstruct.
INVALID == [is_valid |-> FALSE, geometry |-> [nan |-> TRUE], az |-> [nan |-> TRUE]]

RECURSIVE SumOfSet(_)
SumOfSet(S) ==
    IF S = {} THEN 0 ELSE LET x == CHOOSE y \in S : TRUE IN x + SumOfSet(S \ {x})

\* The azimuth the reconstructor returns (sixths of arcmin): the array pointing
\* displaced by the offset of the shower in the field of view, which the images
\* of the telescopes seen determine; the value is not normalised, it may be
\* negative or reach 360 deg.
ReconstructedAz(ev) == ev.array_azimuth + MeanScale * (SumOfSet(DOMAIN ev.tel) - 4)

\* hillas_reconstructor(event): the geometry reconstructed from every telescope
\* entry of the container and its array pointing; fewer than two telescopes
\* give the invalid result.
HillasReconstructor(ev) ==
    IF Cardinality(DOMAIN ev.tel) < 2 THEN INVALID
    ELSE [is_valid |-> TRUE,
          geometry |-> [nan |-> FALSE,
                        array_azimuth |-> ev.array_azimuth,
                        views |-> {[tel_id |-> t, azimuth |-> ev.tel[t].azimuth,
                                    hillas |-> ev.tel[t].hillas] : t \in DOMAIN ev.tel}],
          az |-> [nan |-> FALSE, value |-> ReconstructedAz(ev)]]

\* An azimuth clamped to the bounds of [0, 360 deg).
clamp_at(a) == IF a < 0 THEN 0 ELSE IF a >= FullCircle6 THEN FullCircle6 - 1 ELSE a

\* Longitude.wrap_at(360 deg): the representative of the angle in [0, 360 deg).
wrap_at(a) == a % FullCircle6

\* Line 236: stereo_params.az.wrap_at(360 * u.deg, inplace=True); NaN stays NaN.
WrapAz(params) ==
    IF params.az.nan THEN params
    ELSE [params EXCEPT !.az = [nan |-> FALSE, value |-> wrap_at(params.az.value)]]

\* calculate_impact(...): the distance of a telescope position to the shower
\* axis of a geometry; undefined for the invalid geometry.
calculate_impact(geometry, tel_pos) ==
    IF geometry.nan THEN [nan |-> TRUE]
    ELSE [nan |-> FALSE, axis |-> geometry, tel_pos |-> tel_pos]

\* Lines 246-248 reading the position of the first telescope of the event.
ImpactTelFirst(tel_ids, tel_id) == tel_ids[1]

\* The telescope whose position line 246 reads for the row of tel_id.
ImpactTel(tel_ids, tel_id) == tel_id

\* The dictionary params of lines 252-264 for the row of tel_id.
StereoColumns(params, positions, tel_ids, tel_id) ==
    [assigned |-> TRUE,
     geometry |-> params.geometry,
     az |-> params.az,
     impact |-> calculate_impact(params.geometry, positions[ImpactTel(tel_ids, tel_id)]),
     is_valid |-> IF params.is_valid THEN 1 ELSE 0]

\* An assignment by (obs_id, event_id) alone: every row of the event is written.
SetStereoOfEvent(rows, k, tel_id, cols) ==
    [i \in 1..Len(rows) |->
        IF RowKey(rows[i]) = k THEN [rows[i] EXCEPT !.stereo = cols] ELSE rows[i]]

\* event_data.loc[(obs_id, event_id, tel_id), params.keys()] = params.values()
SetStereo(rows, k, tel_id, cols) ==
    [i \in 1..Len(rows) |->
        IF RowKey(rows[i]) = k /\ rows[i].tel_id = tel_id
        THEN [rows[i] EXCEPT !.stereo = cols] ELSE rows[i]]

\* subarray.positions of the array LST-1, MAGIC-I, MAGIC-II.
SubarrayPositions == [t \in TelIds |-> <<10 * t, 0, 0>>]

\* The telescopes the subarray description of an input file may hold: the whole
\* array, or the array without MAGIC-II.
KnownTelSets == {TelIds, {1, 2}}

\* SubarrayDescription.from_hdf(input_file).positions
PositionsOf(known) == [t \in known |-> SubarrayPositions[t]]

\* ------------------------------------------------------------- the run

\* No call of calculate_mean_direction on its own.
MeanIdle == lon = <<>> /\ mean_az = Unset

\* No call of split_train_test.
SplitIdle ==
    /\ train_fraction = 0
    /\ n_files = <<>>
    /\ node_files = <<>>
    /\ train_files = <<>>
    /\ test_files = <<>>
    /\ i_node = 0
    /\ split_pc = "idle"

\* No call of save_images.
ImagesIdle ==
    /\ max_events = 0
    /\ mars_filelist = <<>>
    /\ i_file = 0
    /\ batch_no = 0
    /\ j_evt = 0
    /\ events_count = 0
    /\ writer = <<>>
    /\ images_pc = "idle"

\* No call of out_file_h5 or out_file_h5_reco.
NamesIdle ==
    /\ in_file = <<>>
    /\ out = <<>>
    /\ names_pc = "idle"

\* No MAGICBadPixelsCalc.
HotIdle ==
    /\ sample_times = <<>>
    /\ n_samples = <<>>
    /\ is_update = <<>>
    /\ mon = <<>>
    /\ hot_event = [mon |-> 0, time |-> 0]
    /\ hotpixel_mask = <<>>
    /\ hot_pc = "idle"
    /\ n_calls = 0

\* No call of a utility outside the stereo reconstruction and the
\* semi-automatic scripts' submission.
UtilitiesIdle == SplitIdle /\ ImagesIdle /\ NamesIdle /\ HotIdle

\* No run of a semi-automatic script.
ScriptsIdle ==
    /\ analysis_type = "doEverything"
    /\ NSB_match = FALSE
    /\ source_list = <<>>
    /\ nights = <<>>
    /\ script_pc = "idle"
    /\ i_source = 0
    /\ cwd_scripts = {}
    /\ sbatch_log = <<>>
    /\ job_state = <<>>

Init ==
    /\ UtilitiesIdle
    /\ MeanIdle
    /\ ScriptsIdle
    /\ \E kinds \in [Keys \X TelIds -> RowKinds], sim \in BOOLEAN, desc \in BOOLEAN :
          /\ input_file = [true_energy |-> sim]
          /\ event_data = IF desc THEN Reverse(FileRows(kinds)) ELSE FileRows(kinds)
    /\ config \in [theta_uplim : ThetaLimits]
    /\ magic_only_analysis \in BOOLEAN
    /\ tel_positions \in {PositionsOf(known) : known \in KnownTelSets}
    /\ pc = "start"
    /\ is_simulation = FALSE
    /\ check = "pending"
    /\ theta_max = Unset
    /\ event = ArrayEventContainer
    /\ i_evt = Unset
    /\ i_tel = 0
    /\ stereo_params = INVALID
    /\ reco_log = <<>>
    /\ output_file = <<>>
    /\ summary = <<>>
    /\ n_checks = 0

\* Lines 128-149 without the selection of lines 134-136.
LoadAllTelescopes ==
    /\ pc = "start"
    /\ event_data' = get_stereo_events(sort_index(event_data))
    /\ is_simulation' = input_file.true_energy
    /\ pc' = "check"
    /\ UNCHANGED <<input_file, config, magic_only_analysis, tel_positions, check,
                   theta_max, event, i_evt, i_tel, stereo_params, reco_log, output_file,
                   summary, n_checks, v_others>>

\* Lines 128-149: index and sort the table read from the file, select the MAGIC
\* rows with --magic-only, apply the quality cuts.
Load ==
    /\ pc = "start"
    /\ LET sorted == sort_index(event_data)
           selected == IF magic_only_analysis
                       THEN SelectSeq(sorted, LAMBDA r : r.tel_id > 1)
                       ELSE sorted
       IN  event_data' = get_stereo_events(selected)
    /\ is_simulation' = input_file.true_energy
    /\ pc' = "check"
    /\ UNCHANGED <<input_file, config, magic_only_analysis, tel_positions, check,
                   theta_max, event, i_evt, i_tel, stereo_params, reco_log, output_file,
                   summary, n_checks, v_others>>

\* Lines 178-194 after the check: the reconstructor and the container are made.
EnterLoop ==
    /\ event' = ArrayEventContainer
    /\ pc' = "loop"
    /\ UNCHANGED <<input_file, config, magic_only_analysis, tel_positions, event_data,
                   is_simulation, i_evt, i_tel, stereo_params, reco_log, output_file,
                   summary, v_others>>

\* Line 154 false: the check is not executed.
CheckSkipped ==
    /\ pc = "check"
    /\ ~NeedsCheck(is_simulation, event_data)
    /\ check' = "skipped"
    /\ n_checks' = n_checks
    /\ theta_max' = theta_max
    /\ EnterLoop

\* Lines 161-162 raise: KeyError from df_magic.loc for an LST-1 key without
\* MAGIC rows, ValueError from np.max of an empty theta.
CheckRaises ==
    /\ pc = "check"
    /\ NeedsCheck(is_simulation, event_data)
    /\ LocRaises(event_data) \/ df_lst(event_data) = <<>>
    /\ n_checks' = n_checks + 1
    /\ check' = "error"
    /\ pc' = "error"
    /\ UNCHANGED <<input_file, config, magic_only_analysis, tel_positions, event_data,
                   is_simulation, theta_max, event, i_evt, i_tel, stereo_params,
                   reco_log, output_file,
                   summary, v_others>>

\* Lines 161-170: the maximum separation is above the limit, sys.exit().
CheckAborts ==
    /\ pc = "check"
    /\ NeedsCheck(is_simulation, event_data)
    /\ ~LocRaises(event_data) /\ df_lst(event_data) # <<>>
    /\ LET tmax == SeqMax(calculate_pointing_separation(event_data))
       IN  /\ ExceedsLimit(tmax, config.theta_uplim)
           /\ theta_max' = tmax
    /\ n_checks' = n_checks + 1
    /\ check' = "aborted"
    /\ pc' = "exited"
    /\ UNCHANGED <<input_file, config, magic_only_analysis, tel_positions, event_data,
                   is_simulation, event, i_evt, i_tel, stereo_params, reco_log,
                   output_file,
                   summary, v_others>>

\* Lines 161-176: the maximum separation is within the limit.
CheckPasses ==
    /\ pc = "check"
    /\ NeedsCheck(is_simulation, event_data)
    /\ ~LocRaises(event_data) /\ df_lst(event_data) # <<>>
    /\ LET tmax == SeqMax(calculate_pointing_separation(event_data))
       IN  /\ ~ExceedsLimit(tmax, config.theta_uplim)
           /\ theta_max' = tmax
    /\ n_checks' = n_checks + 1
    /\ check' = "passed"
    /\ EnterLoop

\* Key of the event the loop is processing.
CurrentKey == GroupKeys(event_data)[i_evt + 1]

\* Lines 196-230: the next event; its array pointing and its telescope entries
\* are set in the container.
SetEvent ==
    /\ pc = "loop"
    /\ i_evt + 1 < Len(GroupKeys(event_data))
    /\ i_evt' = i_evt + 1
    /\ LET k == GroupKeys(event_data)[i_evt' + 1]
           df_evt == RowsOfKey(event_data, k)
       IN  event' = [array_azimuth |-> calculate_mean_direction(event_data)[i_evt' + 1],
                     tel |-> FillTels(event.tel, df_evt)]
    /\ pc' = "reco"
    /\ UNCHANGED <<input_file, config, magic_only_analysis, tel_positions, event_data,
                   is_simulation, check, theta_max, i_tel, stereo_params, reco_log,
                   output_file,
                   summary, n_checks, v_others>>

\* Lines 232-236: the reconstructor is invoked on the container.
Reconstruct ==
    /\ pc = "reco"
    /\ stereo_params' = WrapAz(HillasReconstructor(event))
    /\ reco_log' = Append(reco_log, CurrentKey)
    /\ i_tel' = 1
    /\ pc' = "write"
    /\ UNCHANGED <<input_file, config, magic_only_analysis, tel_positions, event_data,
                   is_simulation, check, theta_max, event, i_evt, output_file,
                   summary, n_checks, v_others>>

\* Lines 238-266, one iteration: the stereo columns of one row are assigned.
WriteRow ==
    /\ pc = "write"
    /\ LET df_evt == RowsOfKey(event_data, CurrentKey)
           tel_ids == [i \in 1..Len(df_evt) |-> df_evt[i].tel_id]
           tel_id == tel_ids[i_tel]
       IN  /\ ImpactTel(tel_ids, tel_id) \in DOMAIN tel_positions
           /\ event_data' = SetStereo(event_data, CurrentKey, tel_id,
                               StereoColumns(stereo_params, tel_positions, tel_ids, tel_id))
           /\ IF i_tel < Len(tel_ids)
              THEN i_tel' = i_tel + 1 /\ pc' = "write"
              ELSE i_tel' = 0 /\ pc' = "loop"
    /\ UNCHANGED <<input_file, config, magic_only_analysis, tel_positions,
                   is_simulation, check, theta_max, event, i_evt, stereo_params,
                   reco_log, output_file,
                   summary, n_checks, v_others>>

\* Line 246 raising with the rows written so far flushed to the output file.
WriteRaisesFlushing ==
    /\ pc = "write"
    /\ LET df_evt == RowsOfKey(event_data, CurrentKey)
           tel_ids == [i \in 1..Len(df_evt) |-> df_evt[i].tel_id]
       IN  ImpactTel(tel_ids, tel_ids[i_tel]) \notin DOMAIN tel_positions
    /\ output_file' = SelectSeq(event_data, LAMBDA r : r.stereo.assigned)
    /\ pc' = "key_error"
    /\ UNCHANGED <<input_file, config, magic_only_analysis, tel_positions, event_data,
                   is_simulation, check, theta_max, event, i_evt, i_tel, stereo_params,
                   reco_log, summary, n_checks, v_others>>

\* Line 246 raises: tel_positions has no entry for the telescope of the row;
\* the KeyError is not caught and ends the run.
WriteRaises ==
    /\ pc = "write"
    /\ LET df_evt == RowsOfKey(event_data, CurrentKey)
           tel_ids == [i \in 1..Len(df_evt) |-> df_evt[i].tel_id]
       IN  ImpactTel(tel_ids, tel_ids[i_tel]) \notin DOMAIN tel_positions
    /\ pc' = "key_error"
    /\ UNCHANGED <<input_file, config, magic_only_analysis, tel_positions, event_data,
                   is_simulation, check, theta_max, event, i_evt, i_tel, stereo_params,
                   reco_log, output_file,
                   summary, n_checks, v_others>>

\* Line 268 after a loop that never ran: i_evt is unbound.
SaveRaises ==
    /\ pc = "loop"
    /\ i_evt + 1 >= Len(GroupKeys(event_data))
    /\ i_evt = Unset
    /\ pc' = "error"
    /\ UNCHANGED <<input_file, config, magic_only_analysis, tel_positions, event_data,
                   is_simulation, check, theta_max, event, i_evt, i_tel, stereo_params,
                   reco_log, output_file,
                   summary, n_checks, v_others>>

\* Lines 268-302: the table is saved.
Save ==
    /\ pc = "loop"
    /\ i_evt + 1 >= Len(GroupKeys(event_data))
    /\ i_evt # Unset
    /\ summary' = <<[n_events_processed |-> i_evt + 1]>>
    /\ output_file' = event_data
    /\ pc' = "done"
    /\ UNCHANGED <<input_file, config, magic_only_analysis, tel_positions, event_data,
                   is_simulation, check, theta_max, event, i_evt, i_tel, stereo_params,
                   reco_log, n_checks, v_others>>

Next ==
    \/ Load
    \/ CheckSkipped
    \/ CheckRaises
    \/ CheckAborts
    \/ CheckPasses
    \/ SetEvent
    \/ Reconstruct
    \/ WriteRow
    \/ WriteRaises
    \/ SaveRaises
    \/ Save

Spec == Init /\ [][Next]_vars

\* No run of stereo_reconstruction.
RecoIdle ==
    /\ input_file = [true_energy |-> FALSE]
    /\ event_data = <<>>
    /\ config = [theta_uplim |-> 1]
    /\ magic_only_analysis = FALSE
    /\ tel_positions = SubarrayPositions
    /\ pc = "idle"
    /\ is_simulation = FALSE
    /\ check = "pending"
    /\ theta_max = Unset
    /\ event = ArrayEventContainer
    /\ i_evt = Unset
    /\ i_tel = 0
    /\ stereo_params = INVALID
    /\ reco_log = <<>>
    /\ output_file = <<>>
    /\ summary = <<>>
    /\ n_checks = 0

\* ------------------------------ calculate_mean_direction on its own

\* The azimuths given lie within MaxOffset degrees of the 0/360 deg boundary,
\* on either side of it.
MaxOffset == 3
AzimuthVals == {(60 * k) % FullCircle : k \in (0 - MaxOffset)..MaxOffset}

\* The pointings of an event seen by one or by two telescopes, as lines 91-94
\* and 188-190 hand them to calculate_mean_direction (no weights).
MeanInit ==
    /\ RecoIdle
    /\ UtilitiesIdle
    /\ ScriptsIdle
    /\ lon \in {<<a>> : a \in AzimuthVals} \cup {<<a, b>> : a, b \in AzimuthVals}
    /\ mean_az = Unset

\* pointing_az_mean = calculate_mean_direction(lon=..., lat=...)[0]
ComputeMean ==
    /\ mean_az = Unset
    /\ mean_az' = MeanDirection(lon)
    /\ UNCHANGED <<lon, v_not_mean>>

MeanNext == ComputeMean

MeanSpec == MeanInit /\ [][MeanNext]_vars

\* ------------------------------------------- semi-automatic scripts

\* Number of sources of list_sources.dat.
MaxSources == 2

\* The source lists main may loop over: the sources 1..n by name.
SourceLists == {[i \in 1..n |-> i] : n \in 1..MaxSources}

\* The file name of a bash script: its source prefix (0 when the name has
\* none), its kind and its identification.
ScriptName(source, kind, identification) ==
    [source |-> source, kind |-> kind, identification |-> identification]

\* The identifications of the scripts, each list in the order of the file
\* names as strings ("0_..." < "1_..." < "2_...", "gammad..." < "gammas",
\* "protons.sh" < "protons_test.sh").
MagicIdentifications == <<"0_subruns", "1_M1M2", "2_nights">>
McIdentifications == <<"gammadiffuse", "gammas", "protons", "protons_test">>

\* Position of a script among the scripts of its kind in the string order of
\* the names; the nights identifying the stereo scripts are dates, ordered as
\* numbers.
SortRank(f) ==
    IF f.kind = "Merge_MAGIC"
    THEN CHOOSE i \in 1..Len(MagicIdentifications) : MagicIdentifications[i] = f.identification
    ELSE IF f.kind \in {"Merge_MC", "StereoEvents_MC"}
    THEN CHOOSE i \in 1..Len(McIdentifications) : McIdentifications[i] = f.identification
    ELSE f.identification

\* np.sort(glob.glob(pattern)): the scripts of the working directory with the
\* source prefix and the kind of the pattern, in the order of their names.
RECURSIVE SortScripts(_)
SortScripts(S) ==
    IF S = {} THEN <<>>
    ELSE LET first == CHOOSE x \in S :
                 \A y \in S : SortRank(x) <= SortRank(y)
         IN  <<first>> \o SortScripts(S \ {first})

glob(files, source, kind) ==
    SortScripts({f \in files : f.source = source /\ f.kind = kind})

\* A launch line whose sbatch calls carry no --dependency.
no_dependency(k, first_id) == 0

\* --dependency=afterany:$merging{n-1} of line 390: the job of the k-th script of
\* a launch line waits for the job of the script before it; the first waits for
\* nothing (0).
afterany(k, first_id) == IF k = 1 THEN 0 ELSE first_id + k - 2

\* The jobs of the launch line of lines 354-358: one sbatch per script, no
\* dependency.
LaunchAll(runs) == [k \in 1..Len(runs) |-> [script |-> runs[k], dependency |-> 0]]

\* The jobs of the launch line of lines 386-390, the first of them getting the
\* job id first_id.
LaunchChained(runs, first_id) ==
    [k \in 1..Len(runs) |-> [script |-> runs[k], dependency |-> afterany(k, first_id)]]

Pending(jobs) == [k \in 1..Len(jobs) |-> "PENDING"]

\* The start of main of merging_runs: the arguments and the configuration.
MergeInit ==
    /\ RecoIdle
    /\ UtilitiesIdle
    /\ MeanIdle
    /\ analysis_type \in {"doEverything", "onlyMAGIC", "onlyMC"}
    /\ NSB_match \in BOOLEAN
    /\ source_list \in SourceLists
    /\ nights = <<>>
    /\ script_pc = "mc"
    /\ i_source = 1
    /\ cwd_scripts = {}
    /\ sbatch_log = <<>>
    /\ job_state = <<>>

\* Lines 324-360, condition true: the four Merge_MC scripts are written and
\* every Merge_MC script of the working directory is submitted.
MergeMcScripts ==
    /\ script_pc = "mc"
    /\ ~NSB_match /\ analysis_type \in {"onlyMC", "doEverything"}
    /\ cwd_scripts' = cwd_scripts \cup
          {ScriptName(0, "Merge_MC", McIdentifications[i]) : i \in 1..Len(McIdentifications)}
    /\ LET jobs == LaunchAll(glob(cwd_scripts', 0, "Merge_MC"))
       IN  /\ sbatch_log' = sbatch_log \o jobs
           /\ job_state' = job_state \o Pending(jobs)
    /\ script_pc' = "magic"
    /\ UNCHANGED <<analysis_type, NSB_match, source_list, nights, i_source, v_not_scripts>>

\* Lines 324-327, condition false.
MergeMcSkipped ==
    /\ script_pc = "mc"
    /\ ~(~NSB_match /\ analysis_type \in {"onlyMC", "doEverything"})
    /\ script_pc' = "magic"
    /\ UNCHANGED <<analysis_type, NSB_match, source_list, nights, i_source, cwd_scripts,
                   sbatch_log, job_state, v_not_scripts>>

\* The end of an iteration of the loop of line 318.
NextSource ==
    IF i_source < Len(source_list)
    THEN i_source' = i_source + 1 /\ script_pc' = "mc"
    ELSE i_source' = i_source /\ script_pc' = "end"

\* Lines 363-392, condition true: the three Merge_MAGIC scripts of the source
\* are written and its Merge_MAGIC scripts are submitted, each after the first
\* depending on the one before.
MergeMagicScripts ==
    /\ script_pc = "magic"
    /\ analysis_type \in {"onlyMAGIC", "doEverything"} \/ NSB_match
    /\ LET source_name == source_list[i_source]
       IN  /\ cwd_scripts' = cwd_scripts \cup
                  {ScriptName(source_name, "Merge_MAGIC", MagicIdentifications[i]) :
                       i \in 1..Len(MagicIdentifications)}
           /\ LET jobs == LaunchChained(glob(cwd_scripts', source_name, "Merge_MAGIC"),
                                        Len(sbatch_log) + 1)
              IN  /\ sbatch_log' = sbatch_log \o jobs
                  /\ job_state' = job_state \o Pending(jobs)
    /\ NextSource
    /\ UNCHANGED <<analysis_type, NSB_match, source_list, nights, v_not_scripts>>

\* Lines 363-367, condition false.
MergeMagicSkipped ==
    /\ script_pc = "magic"
    /\ ~(analysis_type \in {"onlyMAGIC", "doEverything"} \/ NSB_match)
    /\ NextSource
    /\ UNCHANGED <<analysis_type, NSB_match, source_list, nights, cwd_scripts,
                   sbatch_log, job_state, v_not_scripts>>

\* The jobs whose run in the cluster is followed: the Merge_MAGIC jobs.  The
\* Merge_MC jobs are array jobs nothing waits for.
Followed(j) == sbatch_log[j].script.kind = "Merge_MAGIC"

\* The cluster starts a pending job; a job submitted with
\* --dependency=afterany:<id> is not started before job <id> has terminated.
StartJob ==
    /\ \E j \in 1..Len(sbatch_log) :
          /\ Followed(j)
          /\ job_state[j] = "PENDING"
          /\ sbatch_log[j].dependency # 0 => job_state[sbatch_log[j].dependency] = "COMPLETED"
          /\ job_state' = [job_state EXCEPT ![j] = "RUNNING"]
    /\ UNCHANGED <<analysis_type, NSB_match, source_list, nights, script_pc, i_source,
                   cwd_scripts, sbatch_log, v_not_scripts>>

\* A running job terminates.
FinishJob ==
    /\ \E j \in 1..Len(sbatch_log) :
          /\ job_state[j] = "RUNNING"
          /\ job_state' = [job_state EXCEPT ![j] = "COMPLETED"]
    /\ UNCHANGED <<analysis_type, NSB_match, source_list, nights, script_pc, i_source,
                   cwd_scripts, sbatch_log, v_not_scripts>>

MergeNext ==
    \/ MergeMcScripts
    \/ MergeMcSkipped
    \/ MergeMagicScripts
    \/ MergeMagicSkipped
    \/ StartJob
    \/ FinishJob

MergeSpec == MergeInit /\ [][MergeNext]_vars

\* Number of night directories of a source under DL1Coincident.
MaxNights == 1

\* What a night directory may hold: its number of entries and, among them, of
\* coincident LST files.
NightDirs == {[entries |-> 0, lst_files |-> 0], [entries |-> 1, lst_files |-> 1],
              [entries |-> 2, lst_files |-> 1], [entries |-> 2, lst_files |-> 2]}

\* The start of main of stereo_events: the arguments, the configuration and the
\* night directories of each source.
StereoInit ==
    /\ RecoIdle
    /\ UtilitiesIdle
    /\ MeanIdle
    /\ analysis_type \in {"doEverything", "onlyReal", "onlyMC"}
    /\ NSB_match \in BOOLEAN
    /\ source_list \in SourceLists
    /\ nights \in [DOMAIN source_list -> [1..MaxNights -> NightDirs]]
    /\ script_pc = "mc"
    /\ i_source = 1
    /\ cwd_scripts = {}
    /\ sbatch_log = <<>>
    /\ job_state = <<>>

\* bash_stereo(target_dir, source, ...): the nights of the source a script is
\* written for; empty directories, directories with fewer than two entries and
\* directories without LST file are passed over (lines 112-124).
bash_stereo(dirs) ==
    {n \in DOMAIN dirs : dirs[n].entries >= 2 /\ dirs[n].lst_files - 1 >= 0}

\* Lines 250-267 of stereo_events, condition true: the four StereoEvents_MC
\* scripts are written and every such script of the directory is submitted.
StereoMcScripts ==
    /\ script_pc = "mc"
    /\ analysis_type = "onlyMC" \/ (analysis_type = "doEverything" /\ ~NSB_match)
    /\ cwd_scripts' = cwd_scripts \cup
          {ScriptName(0, "StereoEvents_MC", McIdentifications[i]) :
               i \in 1..Len(McIdentifications)}
    /\ LET jobs == LaunchAll(glob(cwd_scripts', 0, "StereoEvents_MC"))
       IN  /\ sbatch_log' = sbatch_log \o jobs
           /\ job_state' = job_state \o Pending(jobs)
    /\ script_pc' = "real"
    /\ UNCHANGED <<analysis_type, NSB_match, source_list, nights, i_source, v_not_scripts>>

\* Lines 250-254 of stereo_events, condition false.
StereoMcSkipped ==
    /\ script_pc = "mc"
    /\ ~(analysis_type = "onlyMC" \/ (analysis_type = "doEverything" /\ ~NSB_match))
    /\ script_pc' = "real"
    /\ UNCHANGED <<analysis_type, NSB_match, source_list, nights, i_source, cwd_scripts,
                   sbatch_log, job_state, v_not_scripts>>

\* The scripts in the directory after bash_stereo ran for the current source.
AfterBashStereo ==
    LET source_name == source_list[i_source]
    IN  cwd_scripts \cup {ScriptName(source_name, "StereoEvents", n) :
                             n \in bash_stereo(nights[i_source])}

\* Lines 271-290 of stereo_events: the scripts of the nights of the source are
\* written, whatever the analysis type, and submitted.
StereoRealScripts ==
    /\ script_pc = "real"
    /\ glob(AfterBashStereo, source_list[i_source], "StereoEvents") # <<>>
    /\ cwd_scripts' = AfterBashStereo
    /\ LET jobs == LaunchAll(glob(cwd_scripts', source_list[i_source], "StereoEvents"))
       IN  /\ sbatch_log' = sbatch_log \o jobs
           /\ job_state' = job_state \o Pending(jobs)
    /\ NextSource
    /\ UNCHANGED <<analysis_type, NSB_match, source_list, nights, v_not_scripts>>

\* Lines 271-283 of stereo_events: no script of the source, the loop continues.
StereoRealNone ==
    /\ script_pc = "real"
    /\ glob(AfterBashStereo, source_list[i_source], "StereoEvents") = <<>>
    /\ NextSource
    /\ UNCHANGED <<analysis_type, NSB_match, source_list, nights, cwd_scripts,
                   sbatch_log, job_state, v_not_scripts>>

StereoNext ==
    \/ StereoMcScripts
    \/ StereoMcSkipped
    \/ StereoRealScripts
    \/ StereoRealNone

StereoSpec == StereoInit /\ [][StereoNext]_vars

\* ------------------------------------------------------ split_train_test
\* merging_runs.py, split_train_test: the proton MC files of every node
\* directory are split between protons/train/<node> and protons_test/<node>.
\* A file is the position of its name in the sorted listing of its node
\* directory; train_fraction is held in percent, so that the product
\* len(list_of_runs) * train_fraction is exact.

MaxNodes == 2
MaxFiles == 3
TrainPercents == {0, 50, 80, 100}

NodeListings ==
    UNION {[1..n -> 0..MaxFiles] : n \in 0..MaxNodes}

\* The mutation of split_percent: the product rounded up.
split_percent_ceiling(n, fraction) == (n * fraction + 99) \div 100

\* Line 105: int(len(list_of_runs) * train_fraction).
split_percent(n, fraction) == (n * fraction) \div 100

\* list_of_runs[0:k] of the sorted listing of a set of files.
FirstOf(files, k) ==
    {f \in files : Cardinality({g \in files : g < f}) < k}

SplitInit ==
    /\ RecoIdle
    /\ MeanIdle
    /\ ScriptsIdle
    /\ ImagesIdle
    /\ NamesIdle
    /\ HotIdle
    /\ train_fraction \in TrainPercents
    /\ n_files \in NodeListings
    /\ node_files = [d \in DOMAIN n_files |-> 1..n_files[d]]
    /\ train_files = [d \in DOMAIN n_files |-> {}]
    /\ test_files = [d \in DOMAIN n_files |-> {}]
    /\ i_node = 1
    /\ split_pc = "train"

\* Lines 98-109: the two directories of the node are made and the first
\* split_percent files of the sorted listing are moved to train/<node>.
MoveToTrain ==
    /\ split_pc = "train"
    /\ i_node <= Len(n_files)
    /\ LET list_of_runs == node_files[i_node]
           moved == FirstOf(list_of_runs,
                            split_percent(Cardinality(list_of_runs), train_fraction))
       IN  /\ train_files' = [train_files EXCEPT ![i_node] = @ \cup moved]
           /\ node_files' = [node_files EXCEPT ![i_node] = @ \ moved]
    /\ split_pc' = "test"
    /\ UNCHANGED <<train_fraction, n_files, test_files, i_node, v_not_split>>

\* Lines 111-120: the .h5 files left in the node directory are moved to
\* protons_test/<node> and the node directory is removed.
MoveToTest ==
    /\ split_pc = "test"
    /\ test_files' = [test_files EXCEPT ![i_node] = @ \cup node_files[i_node]]
    /\ node_files' = [node_files EXCEPT ![i_node] = {}]
    /\ i_node' = i_node + 1
    /\ split_pc' = "train"
    /\ UNCHANGED <<train_fraction, n_files, train_files, v_not_split>>

\* Line 94: list_of_dir is exhausted.
SplitDone ==
    /\ split_pc = "train"
    /\ i_node > Len(n_files)
    /\ split_pc' = "done"
    /\ UNCHANGED <<train_fraction, n_files, node_files, train_files, test_files,
                   i_node, v_not_split>>

SplitNext ==
    \/ MoveToTrain
    \/ MoveToTest
    \/ SplitDone

SplitSpec == SplitInit /\ [][SplitNext]_vars

\* ------------------------------------------------------------ save_images
\* mars_images_to_hdf5.py, save_images: the images of every MARS file are
\* written batch by batch to the tables of the MAGIC telescopes. A file is
\* its data level, its telescope and the sizes of the batches that
\* events.iterate yields.

MaxMarsFiles == 2
MaxBatches == 2
MaxBatchSize == 2
MaxEventsFlags == {0, 1, 2}

BatchLists == UNION {[1..n -> 1..MaxBatchSize] : n \in 0..MaxBatches}

MarsFiles ==
    [datalevel : {"STAR"}, telescope : {1, 2}, batches : BatchLists]
        \cup [datalevel : {"SUPERSTAR"}, telescope : {0}, batches : BatchLists]

NoRows == [M1 |-> 0, M2 |-> 0]

\* Lines 270, 301, 354: events_count > max_events and max_events > 0.
LimitReached(count) == count > max_events /\ max_events > 0

ImagesInit ==
    /\ RecoIdle
    /\ MeanIdle
    /\ ScriptsIdle
    /\ SplitIdle
    /\ NamesIdle
    /\ HotIdle
    /\ max_events \in MaxEventsFlags
    /\ mars_filelist \in UNION {[1..n -> MarsFiles] : n \in 1..MaxMarsFiles}
    /\ i_file = 1
    /\ batch_no = 0
    /\ j_evt = 0
    /\ events_count = 0
    /\ writer = [f \in DOMAIN mars_filelist |-> NoRows]
    /\ images_pc = "batch"

\* Lines 270-271: the batch loop is left once the count is above the limit.
BatchBreak ==
    /\ images_pc = "batch"
    /\ batch_no < Len(mars_filelist[i_file].batches)
    /\ LimitReached(events_count)
    /\ images_pc' = "file"
    /\ UNCHANGED <<max_events, mars_filelist, i_file, batch_no, j_evt, events_count,
                   writer, v_not_images>>

\* Lines 265-273: the next batch is entered.
EnterBatch ==
    /\ images_pc = "batch"
    /\ batch_no < Len(mars_filelist[i_file].batches)
    /\ ~LimitReached(events_count)
    /\ j_evt' = 0
    /\ images_pc' = "event"
    /\ UNCHANGED <<max_events, mars_filelist, i_file, batch_no, events_count,
                   writer, v_not_images>>

\* Lines 265-269: events.iterate is exhausted.
BatchesExhausted ==
    /\ images_pc = "batch"
    /\ batch_no = Len(mars_filelist[i_file].batches)
    /\ images_pc' = "file"
    /\ UNCHANGED <<max_events, mars_filelist, i_file, batch_no, j_evt, events_count,
                   writer, v_not_images>>

\* Lines 300-302, 353-356: the event is counted after it is written; the
\* loop over the batch is left above the limit or at the end of the batch,
\* and the batch is counted.
CountEvent ==
    /\ events_count' = events_count + 1
    /\ IF LimitReached(events_count')
          \/ j_evt + 1 = mars_filelist[i_file].batches[batch_no + 1]
       THEN /\ batch_no' = batch_no + 1
            /\ j_evt' = j_evt + 1
            /\ images_pc' = "batch"
       ELSE /\ batch_no' = batch_no
            /\ j_evt' = j_evt + 1
            /\ images_pc' = "event"

\* Lines 273-302: one event of a STAR file, one image of its telescope.
WriteStarEvent ==
    /\ images_pc = "event"
    /\ mars_filelist[i_file].datalevel = "STAR"
    /\ writer' = [writer EXCEPT ![i_file] =
                     IF mars_filelist[i_file].telescope = 1
                     THEN [@ EXCEPT !.M1 = @ + 1]
                     ELSE [@ EXCEPT !.M2 = @ + 1]]
    /\ CountEvent
    /\ UNCHANGED <<max_events, mars_filelist, i_file, v_not_images>>

\* Lines 303-355: one event of a SUPERSTAR file, one image of each telescope.
WriteSuperstarEvent ==
    /\ images_pc = "event"
    /\ mars_filelist[i_file].datalevel # "STAR"
    /\ writer' = [writer EXCEPT ![i_file] = [M1 |-> @.M1 + 1, M2 |-> @.M2 + 1]]
    /\ CountEvent
    /\ UNCHANGED <<max_events, mars_filelist, i_file, v_not_images>>

\* Lines 199, 232, 263: the next file, with its own counters.
NextFile ==
    /\ images_pc = "file"
    /\ i_file < Len(mars_filelist)
    /\ i_file' = i_file + 1
    /\ batch_no' = 0
    /\ events_count' = 0
    /\ images_pc' = "batch"
    /\ UNCHANGED <<max_events, mars_filelist, j_evt, writer, v_not_images>>

\* Line 199: mars_filelist is exhausted.
ImagesDone ==
    /\ images_pc = "file"
    /\ i_file = Len(mars_filelist)
    /\ images_pc' = "done"
    /\ UNCHANGED <<max_events, mars_filelist, i_file, batch_no, j_evt, events_count,
                   writer, v_not_images>>

ImagesNext ==
    \/ BatchBreak
    \/ EnterBatch
    \/ BatchesExhausted
    \/ WriteStarEvent
    \/ WriteSuperstarEvent
    \/ NextFile
    \/ ImagesDone

ImagesSpec == ImagesInit /\ [][ImagesNext]_vars

\* ------------------------------------------------- out_file_h5, out_file_h5_reco
\* filedir.py: the output file names. A name is a sequence of characters.

MaxStem == 3
StemChars == {"r", "_", "5", "z"}

Stems == UNION {[1..n -> StemChars] : n \in 1..MaxStem}

SimtelGz == <<".", "s", "i", "m", "t", "e", "l", ".", "g", "z">>
DotH5 == <<".", "h", "5">>
RecoH5 == <<"_", "r", "e", "c", "o", ".", "h", "5">>
Directories == {<<>>, <<"d", "/">>}

InFiles == {d \o stem \o suffix : d \in Directories, stem \in Stems,
                                  suffix \in {SimtelGz, DotH5}}

\* os.path.basename: what follows the last separator.
RECURSIVE basename(_)
basename(path) ==
    IF \E i \in 1..Len(path) : path[i] = "/"
    THEN basename(Tail(path))
    ELSE path

\* str.rstrip(chars): the trailing characters that are among chars are removed.
RECURSIVE rstrip(_, _)
rstrip(str, chars) ==
    IF str # <<>> /\ str[Len(str)] \in Range(chars)
    THEN rstrip(SubSeq(str, 1, Len(str) - 1), chars)
    ELSE str

NamesInit ==
    /\ RecoIdle
    /\ MeanIdle
    /\ ScriptsIdle
    /\ SplitIdle
    /\ ImagesIdle
    /\ HotIdle
    /\ in_file \in InFiles
    /\ out = <<>>
    /\ names_pc = "start"

\* Lines 286-288: out_file_h5.
out_file_h5 ==
    /\ names_pc = "start"
    /\ out' = rstrip(basename(in_file), SimtelGz) \o DotH5
    /\ names_pc' = "out_file_h5"
    /\ UNCHANGED <<in_file, v_not_names>>

\* Lines 305-307: out_file_h5_reco.
out_file_h5_reco ==
    /\ names_pc = "start"
    /\ out' = rstrip(basename(in_file), DotH5) \o RecoH5
    /\ names_pc' = "out_file_h5_reco"
    /\ UNCHANGED <<in_file, v_not_names>>

NamesNext ==
    \/ out_file_h5
    \/ out_file_h5_reco

NamesSpec == NamesInit /\ [][NamesNext]_vars

\* ---------------------------------------------------- MAGICBadPixelsCalc
\* MAGIC_Badpixels.py: the hot pixels of an event, from the pedestal samples
\* of its monitoring data. A monitoring container holds, for each telescope
\* with data, the times of the pedestal samples, the charge_std array of each
\* sample (of the configured pedestalType) and charge_std_outliers, the masks
\* that get_hotpixels stores on it. Events of one run share one container.

MaxCalls == 2
MaxSamples == 2
NPix == 2
MagicTels == {1, 2}
SampleTimeVals == {0, 2}
EventTimeVals == {0, 1, 2}

\* Lines 20 and 25: the default pedestalLevel, and twice the default
\* pedestalLevelVariance of 4.5.
pedestalLevel == 400
TwicePedestalLevelVariance == 9

\* The charge_std arrays of the samples: a camera of equal pedestal RMS, and
\* one whose pixels after the first are noisier.
ChargeArrays ==
    {[i \in 1..NPix |-> 2], [i \in 1..NPix |-> IF i = 1 THEN 2 ELSE 3]}

RECURSIVE SumPixels(_, _)
SumPixels(f, pixels) ==
    IF pixels = {} THEN 0
    ELSE LET i == CHOOSE j \in pixels : TRUE
         IN  f[i] + SumPixels(f, pixels \ {i})

\* Lines 44-114: _check_pedestal_rms, for self.hotpixels all False at the
\* call. The divisions and the square root are cleared from the comparisons:
\* with M the sum, V the sum of squares and k the number of the pixels kept
\* by the second loop, meanrms2 = M / k and varrms2 = sqrt(k * V - M * M) / k.
check_pedestal_rms(charge_std) ==
    LET first == {i \in 1..NPix : ~(charge_std[i] <= 0 \/ charge_std[i] >= 200)}
        sum1 == SumPixels(charge_std, first)
        kept == {i \in 1..NPix : ~(2 * NPix * charge_std[i] <= sum1
                                     \/ 2 * NPix * charge_std[i] >= 3 * sum1)}
        k == Cardinality(kept)
        M == SumPixels(charge_std, kept)
        V == SumPixels([i \in 1..NPix |-> charge_std[i] * charge_std[i]], kept)
        D == k * V - M * M
        var2 == TwicePedestalLevelVariance * TwicePedestalLevelVariance
        InLevel(c) == /\ pedestalLevel * k * c > M
                      /\ k * c <= pedestalLevel * M
        InVariance(c) ==
            LET x == k * c - M
            IN  /\ x > 0 \/ 4 * x * x < var2 * D
                /\ x <= 0 \/ 4 * x * x <= var2 * D
    IN  IF sum1 = 0 \/ k = 0 \/ M = 0
        THEN [i \in 1..NPix |-> FALSE]
        ELSE [i \in 1..NPix |-> ~(InLevel(charge_std[i]) /\ InVariance(charge_std[i]))]

\* The pedestal container of one telescope, before any call.
Pedestals ==
    UNION {{[sample_time |-> t, charge_std |-> c,
             charge_std_outliers |-> [is_none |-> TRUE, list |-> <<>>]] :
                t \in {u \in [1..n -> SampleTimeVals] :
                          \A i \in 1..n - 1 : u[i] < u[i + 1]},
                c \in [1..n -> ChargeArrays]} : n \in 1..MaxSamples}

\* The monitoring containers of a run, before any call.
MonitoringContainers ==
    UNION {[tels -> Pedestals] : tels \in SUBSET MagicTels \ {{}}}

AbsDiff(a, b) == IF a >= b THEN a - b ELSE b - a

\* Lines 148-150: the first index of the smallest difference to the event time.
NearestSample(times, event_time) ==
    CHOOSE i \in 1..Len(times) :
        /\ \A j \in 1..Len(times) :
              AbsDiff(event_time, times[i]) <= AbsDiff(event_time, times[j])
        /\ \A j \in 1..i - 1 :
              AbsDiff(event_time, times[j]) > AbsDiff(event_time, times[i])

\* Lines 128-151: the body of the loop for one telescope, given the pedestal
\* container of the event and the event time.
TelStep(tel_id, pedestal, event_time) ==
    LET cached == sample_times[tel_id] # <<>>
        times == IF cached THEN sample_times[tel_id] ELSE pedestal.sample_time
        n == IF cached THEN n_samples[tel_id] ELSE Len(pedestal.sample_time)
        update == pedestal.charge_std_outliers.is_none \/ is_update[tel_id]
        available == Len(pedestal.charge_std)
        index_error == update /\ n > available
        computed == [i \in 1..(IF n <= available THEN n ELSE available) |->
                        check_pedestal_rms(pedestal.charge_std[i])]
        outliers == IF update THEN computed ELSE pedestal.charge_std_outliers.list
        i_min == NearestSample(times, event_time)
        raised == index_error \/ i_min > Len(outliers)
    IN  [sample_times |-> times,
         n_samples |-> n,
         is_update |-> IF update /\ ~index_error THEN FALSE ELSE is_update[tel_id],
         pedestal |-> [pedestal EXCEPT !.charge_std_outliers =
                          [is_none |-> FALSE, list |-> outliers]],
         mask |-> IF raised THEN <<>> ELSE outliers[i_min],
         raised |-> raised]

HotInit ==
    /\ RecoIdle
    /\ MeanIdle
    /\ ScriptsIdle
    /\ SplitIdle
    /\ ImagesIdle
    /\ NamesIdle
    /\ sample_times = [t \in MagicTels |-> <<>>]
    /\ n_samples = [t \in MagicTels |-> 0]
    /\ is_update = [t \in MagicTels |-> TRUE]
    /\ mon = <<>>
    /\ hot_event = [mon |-> 0, time |-> 0]
    /\ hotpixel_mask = [t \in MagicTels |-> <<>>]
    /\ hot_pc = "constructed"
    /\ n_calls = 0

\* Lines 121-153: get_hotpixels(event), for an event of monitoring container
\* m at time event_time. The telescopes are visited in order, and an
\* exception ends the call at the telescope that raises it.
HotPixelsOf(containers, m, event_time) ==
    LET tels == DOMAIN containers[m]
        step(t) == TelStep(t, containers[m][t], event_time)
        visited == {t \in tels : \A u \in tels : u < t => ~step(u).raised}
        raised == \E t \in visited : step(t).raised
    IN  /\ sample_times' = [t \in MagicTels |->
                               IF t \in visited THEN step(t).sample_times
                               ELSE sample_times[t]]
        /\ n_samples' = [t \in MagicTels |->
                            IF t \in visited THEN step(t).n_samples ELSE n_samples[t]]
        /\ is_update' = [t \in MagicTels |->
                            IF t \in visited THEN step(t).is_update ELSE is_update[t]]
        /\ hotpixel_mask' = [t \in MagicTels |->
                                IF t \in visited THEN step(t).mask ELSE <<>>]
        /\ hot_pc' = IF raised THEN "raised" ELSE "returned"
        /\ mon' = [containers EXCEPT ![m] =
                      [t \in tels |-> IF t \in visited THEN step(t).pedestal ELSE @[t]]]
        /\ hot_event' = [mon |-> m, time |-> event_time]
        /\ n_calls' = n_calls + 1
        /\ UNCHANGED v_not_hot

\* get_hotpixels for the first event of a run.
get_hotpixels_new_run ==
    /\ n_calls < MaxCalls
    /\ \E container \in MonitoringContainers, event_time \in EventTimeVals :
          HotPixelsOf(Append(mon, container), Len(mon) + 1, event_time)

\* get_hotpixels for a further event of a run.
get_hotpixels_same_run ==
    /\ n_calls < MaxCalls
    /\ \E m \in DOMAIN mon, event_time \in EventTimeVals :
          HotPixelsOf(mon, m, event_time)

HotNext ==
    \/ get_hotpixels_new_run
    \/ get_hotpixels_same_run

HotSpec == HotInit /\ [][HotNext]_vars

\* ---------------------------------------------------------- properties

\* The keys of the LST-1 rows, and the rows of a key by telescope type.
LstKeys(rows) == {RowKey(rows[i]) : i \in {j \in 1..Len(rows) : rows[j].tel_id = 1}}
MagicRowsOfKey(rows, k) == SelectSeq(rows, LAMBDA r : RowKey(r) = k /\ r.tel_id \in {2, 3})
LstRowOfKey(rows, k) == CHOOSE r \in Range(rows) : RowKey(r) = k /\ r.tel_id = 1

\* The separation of the LST-1 pointing of event k and the mean pointing of the
\* MAGIC rows of the same event.
SeparationOfEvent(rows, k) ==
    angular_separation(MeanScale * LstRowOfKey(rows, k).pointing_az,
                       MeanDirection(PointingsOf(MagicRowsOfKey(rows, k))))

\* Every event with an LST-1 row has MAGIC rows too, and there is such an event.
LstWithMagic(rows) ==
    /\ LstKeys(rows) # {}
    /\ \A k \in LstKeys(rows) : MagicRowsOfKey(rows, k) # <<>>

EventsAboveLimit(rows) ==
    {k \in LstKeys(rows) : SeparationOfEvent(rows, k) > MeanScale * config.theta_uplim}

AfterCheck == pc \notin {"start", "check"}

NoStereoWritten == \A i \in 1..Len(event_data) : event_data[i].stereo = NoStereo

\* C1: on real data holding LST-1 rows together with MAGIC rows, a maximum
\* pointing separation above theta_uplim ends the run at the check: the
\* reconstructor has been invoked for no event, no stereo column has been
\* written and nothing is saved.
C1_AbortBeforeReconstruction ==
    (AfterCheck /\ ~input_file.true_energy /\ LstWithMagic(event_data)
        /\ EventsAboveLimit(event_data) # {})
    => (pc = "exited" /\ reco_log = <<>> /\ NoStereoWritten /\ output_file = <<>>)

C1_Witness ==
    /\ pc = "exited"
    /\ ~input_file.true_energy
    /\ LstWithMagic(event_data)
    /\ Cardinality(LstKeys(event_data)) >= 2
    /\ EventsAboveLimit(event_data) # {}

\* The telescope entries the rows of the current event give.
OwnEntries(rows, k) == FillTels(<<>>, RowsOfKey(rows, k))

\* C2: when the reconstructor is invoked for an event, the telescope entries of
\* the container are exactly those of the rows of that event.
C2_NoCrossEventState ==
    pc = "reco" => event.tel = OwnEntries(event_data, CurrentKey)

\* The stereo result of an event processed alone: a fresh container filled
\* from the rows of the event only.
AloneResult(rows, k) ==
    HillasReconstructor(
        [array_azimuth |-> MeanDirection(PointingsOf(RowsOfKey(rows, k))),
         tel |-> OwnEntries(rows, k)])

\* C3: the stereo parameters written for a row are those its event gives when
\* processed alone, whatever was processed before it.
C3_OrderIndependent ==
    \A i \in 1..Len(event_data) :
        event_data[i].stereo.assigned =>
            LET alone == AloneResult(event_data, RowKey(event_data[i]))
            IN  /\ event_data[i].stereo.geometry = alone.geometry
                /\ event_data[i].stereo.is_valid = (IF alone.is_valid THEN 1 ELSE 0)

C5_MaxOverEvents ==
    check \in {"passed", "aborted"} =>
        /\ \A k \in LstKeys(event_data) : SeparationOfEvent(event_data, k) <= theta_max
        /\ \E k \in LstKeys(event_data) : SeparationOfEvent(event_data, k) = theta_max
        /\ (check = "aborted") <=> (EventsAboveLimit(event_data) # {})

\* The last event of a batch of several events is the only one above the limit.
C5_Witness ==
    /\ check = "aborted"
    /\ Cardinality(EventsAboveLimit(event_data)) = 1
    /\ \E k \in EventsAboveLimit(event_data) :
          \A l \in Range(GroupKeys(event_data)) : l = k \/ KeyLess(l, k)
    /\ Cardinality(Range(GroupKeys(event_data))) >= 2

TelSet(rows) == {rows[i].tel_id : i \in 1..Len(rows)}

\* C6: on a batch with rows of one telescope type only (LST-1 only, or any
\* non-empty subset of the MAGIC telescopes) the check is not executed and the
\* run goes on to the event loop.
C6_SingleTypeSkipsCheck ==
    (AfterCheck /\ event_data # <<>>
        /\ (TelSet(event_data) \subseteq {1} \/ TelSet(event_data) \subseteq {2, 3}))
    => (check = "skipped" /\ pc # "error")

\* C7: on simulated data the check is never executed and never ends the run.
C7_SimulationNeverAborts ==
    input_file.true_energy => (check \in {"pending", "skipped"} /\ pc # "exited")

C7_Witness ==
    /\ input_file.true_energy
    /\ pc = "done"
    /\ LstWithMagic(event_data)
    /\ EventsAboveLimit(event_data) # {}

Multiplicity(rows, k) == Len(RowsOfKey(rows, k))

\* C8: after a completed run every row carries a stereo record, the rows of
\* degenerate events with is_valid = 0, and every event was reconstructed.
C8_EveryRowHasRecord ==
    pc = "done" =>
        /\ \A i \in 1..Len(event_data) :
              /\ event_data[i].stereo.assigned
              /\ Multiplicity(event_data, RowKey(event_data[i])) < 2
                    => event_data[i].stereo.is_valid = 0
        /\ Len(reco_log) = Len(GroupKeys(event_data))

\* C9: an event with fewer than two rows raises no error and its row is
\* recorded with is_valid = 0.
C9_SingleTelescopeInvalid ==
    /\ \A i \in 1..Len(event_data) :
          (event_data[i].stereo.assigned
              /\ Multiplicity(event_data, RowKey(event_data[i])) < 2)
          => event_data[i].stereo.is_valid = 0
    /\ (pc = "error" => reco_log = <<>>)

\* C10: after the run the rows of one event carry the same geometry and
\* is_valid, and the impact of a row is that of its own telescope position.
C10_BroadcastExceptImpact ==
    pc = "done" =>
        /\ \A i, j \in 1..Len(event_data) :
              RowKey(event_data[i]) = RowKey(event_data[j]) =>
                  /\ event_data[i].stereo.geometry = event_data[j].stereo.geometry
                  /\ event_data[i].stereo.is_valid = event_data[j].stereo.is_valid
        /\ \A i \in 1..Len(event_data) :
              event_data[i].stereo.impact =
                  calculate_impact(event_data[i].stereo.geometry,
                                   SubarrayPositions[event_data[i].tel_id])

C10_Witness ==
    /\ pc = "done"
    /\ \E i, j \in 1..Len(event_data) :
          /\ RowKey(event_data[i]) = RowKey(event_data[j])
          /\ event_data[i].stereo.is_valid = 1
          /\ event_data[i].stereo.impact # event_data[j].stereo.impact

InRange(az) == ~az.nan /\ az.value \in 0..(FullCircle6 - 1)

\* C11 as stated: the az stored for every row lies in [0, 360 deg).
C11_EveryRowInRange ==
    \A i \in 1..Len(event_data) :
        event_data[i].stereo.assigned => InRange(event_data[i].stereo.az)

\* C11: the az stored for every row of a valid estimate lies in [0, 360 deg) and
\* is the azimuth the reconstructor returned taken modulo 360 deg; the value
\* written is the wrapped one of the event being written.
C11_AzimuthWrapped ==
    /\ \A i \in 1..Len(event_data) :
          (event_data[i].stereo.assigned /\ event_data[i].stereo.is_valid = 1)
          => InRange(event_data[i].stereo.az)
    /\ pc = "write" =>
          /\ stereo_params.is_valid =>
                /\ InRange(stereo_params.az)
                /\ (stereo_params.az.value - ReconstructedAz(event)) % FullCircle6 = 0
          /\ \A i \in 1..Len(event_data) :
                (RowKey(event_data[i]) = CurrentKey /\ event_data[i].stereo.assigned)
                => event_data[i].stereo.az = stereo_params.az

\* A negative azimuth and an azimuth above 360 deg were returned in one run:
\* each is stored as its representative in [0, 360 deg), far from the bound a
\* clamp would give.
C11_Witness ==
    /\ pc = "done"
    /\ \E i, j \in 1..Len(output_file) :
          /\ output_file[i].stereo.is_valid = 1
          /\ output_file[i].stereo.geometry.array_azimuth = 0
          /\ output_file[i].stereo.az.value = FullCircle6 - MeanScale
          /\ output_file[j].stereo.is_valid = 1
          /\ output_file[j].stereo.geometry.array_azimuth = FullCircle6 - MeanScale
          /\ output_file[j].stereo.az.value = MeanScale

\* The row line 246 is reading the position for.
CurrentRow ==
    LET df_evt == RowsOfKey(event_data, CurrentKey) IN df_evt[i_tel]

\* C12: a row whose telescope has no entry in the telescope positions ends the
\* run with an uncaught error: the row gets no stereo record (valid or
\* invalid), no later event is reconstructed, the run never completes and
\* nothing is saved.
C12_MissingPositionFatal ==
    /\ \A i \in 1..Len(event_data) :
          event_data[i].stereo.assigned => event_data[i].tel_id \in DOMAIN tel_positions
    /\ pc = "key_error" =>
          /\ CurrentRow.tel_id \notin DOMAIN tel_positions
          /\ ~CurrentRow.stereo.assigned
          /\ Len(reco_log) = i_evt + 1
          /\ output_file = <<>>
    /\ (pc = "done" \/ output_file # <<>>) =>
          \A i \in 1..Len(event_data) : event_data[i].tel_id \in DOMAIN tel_positions

\* The run ended at the second row of the first of two events, the row of a
\* telescope without position; the second event was never reconstructed.
C12_Witness ==
    /\ pc = "key_error"
    /\ i_tel = 2
    /\ stereo_params.is_valid
    /\ Len(GroupKeys(event_data)) = 2
    /\ Len(reco_log) = 1

\* C13: on every exit path (completion, the abort of the pointing check, an
\* error raised before or inside the event loop) the events table of the
\* output file either does not exist or holds every row of the batch, each
\* with its stereo record; it exists only after a completed run.
C13_AllOrNothing ==
    /\ output_file = <<>> \/
          (/\ pc = "done"
           /\ output_file = event_data
           /\ \A i \in 1..Len(output_file) : output_file[i].stereo.assigned)
    /\ pc \in {"exited", "error", "key_error"} => output_file = <<>>

\* The run ended inside the event loop after rows had got their stereo record.
C13_Witness ==
    /\ pc = "key_error"
    /\ \E i \in 1..Len(event_data) : event_data[i].stereo.assigned
    /\ output_file = <<>>

\* The events of the batch whose estimate is invalid.
InvalidKeys(rows) ==
    {RowKey(rows[i]) : i \in {j \in 1..Len(rows) : rows[j].stereo.is_valid = 0}}

\* C14: the summary logged at the end of a completed run holds the number of
\* events whose estimate is invalid together with the number of events
\* processed.
C14_InvalidCountReported ==
    pc = "done" =>
        /\ Len(summary) = 1
        /\ summary[1].n_events_processed = Len(GroupKeys(event_data))
        /\ "n_invalid" \in DOMAIN summary[1]
        /\ summary[1].n_invalid = Cardinality(InvalidKeys(event_data))

\* C15: the keys handed to the reconstructor are strictly increasing in
\* (obs_id, event_id), for every input table in either row order; after a
\* completed run they are the keys of the batch, each once.
C15_IncreasingOrder ==
    /\ \A i \in 1..(Len(reco_log) - 1) : KeyLess(reco_log[i], reco_log[i + 1])
    /\ pc = "done" => Range(reco_log) = {RowKey(event_data[i]) : i \in 1..Len(event_data)}

\* Two events were reconstructed, the one with the greater event_id first: the
\* order is that of (obs_id, event_id).
C15_Witness ==
    /\ pc = "done"
    /\ Len(reco_log) = 2
    /\ reco_log[1][2] > reco_log[2][2]

\* C16: with --magic-only, from the selection on the table holds MAGIC rows
\* only, the container handed to the reconstructor has no entry of telescope 1,
\* the array pointing of the event is the mean of the pointings of its MAGIC
\* rows, and the output table has no row of telescope 1.
C16_MagicOnly ==
    (magic_only_analysis /\ pc # "start") =>
        /\ \A i \in 1..Len(event_data) : event_data[i].tel_id > 1
        /\ 1 \notin DOMAIN event.tel
        /\ pc \in {"reco", "write"} =>
              event.array_azimuth =
                  MeanDirection(PointingsOf(MagicRowsOfKey(event_data, CurrentKey)))
        /\ \A i \in 1..Len(output_file) : output_file[i].tel_id > 1

\* A --magic-only run completed with an event seen by both MAGIC telescopes,
\* pointing on either side of the 0/360 deg boundary.
C16_Witness ==
    /\ magic_only_analysis
    /\ pc = "done"
    /\ \E i, j \in 1..Len(output_file) :
          /\ RowKey(output_file[i]) = RowKey(output_file[j])
          /\ output_file[i].pointing_az # output_file[j].pointing_az
          /\ output_file[i].stereo.is_valid = 1
          /\ output_file[i].stereo.geometry.array_azimuth = 0

\* C17: the mean of two directions at 1 deg and 359 deg is at 0 deg, not at
\* 180 deg; in general the mean of two directions lies midway on the shorter
\* arc between them, across the 0/360 deg boundary or not.
C17_MeanHandlesWrap ==
    (mean_az # Unset /\ Len(lon) = 2) =>
        /\ {lon[1], lon[2]} = {60, 359 * 60} => mean_az = 0
        /\ mean_az \in 0..(FullCircle6 - 1)
        /\ angular_separation(MeanScale * lon[1], mean_az)
              = angular_separation(MeanScale * lon[2], mean_az)
        /\ 2 * angular_separation(MeanScale * lon[1], mean_az)
              = angular_separation(MeanScale * lon[1], MeanScale * lon[2])

C17_Witness ==
    /\ lon = <<60, 359 * 60>>
    /\ mean_az = 0

\* The job submitted for the Merge_MAGIC script of a source and a step; 0 when
\* there is none.
MagicJob(source, step) ==
    LET js == {j \in 1..Len(sbatch_log) :
                  sbatch_log[j].script = ScriptName(source, "Merge_MAGIC", step)}
    IN  IF js = {} THEN 0 ELSE CHOOSE j \in js : TRUE

\* C18: for each source the scripts of the three steps are submitted once each,
\* in the order subruns, M1-M2, nights, and the job of a step has not left the
\* queue before the job of the step before it has terminated.
C18_MagicMergeOrder ==
    \A s \in Range(source_list) :
        LET j0 == MagicJob(s, "0_subruns")
            j1 == MagicJob(s, "1_M1M2")
            j2 == MagicJob(s, "2_nights")
        IN  (j0 # 0 \/ j1 # 0 \/ j2 # 0) =>
                /\ 0 < j0 /\ j0 < j1 /\ j1 < j2
                /\ Cardinality({j \in 1..Len(sbatch_log) :
                       sbatch_log[j].script.kind = "Merge_MAGIC"
                           /\ sbatch_log[j].script.source = s}) = 3
                /\ job_state[j1] # "PENDING" => job_state[j0] = "COMPLETED"
                /\ job_state[j2] # "PENDING" => job_state[j1] = "COMPLETED"

\* The nights job of one source is running while the subruns job of another
\* source is still in the queue.
C18_Witness ==
    \E s, t \in Range(source_list) :
        /\ MagicJob(s, "2_nights") # 0 /\ MagicJob(t, "0_subruns") # 0
        /\ job_state[MagicJob(s, "2_nights")] = "RUNNING"
        /\ job_state[MagicJob(t, "0_subruns")] = "PENDING"

\* The kinds of the scripts written and of the scripts submitted.
KindsWritten == {f.kind : f \in cwd_scripts}
KindsSubmitted == {sbatch_log[j].script.kind : j \in 1..Len(sbatch_log)}

\* C20: with onlyMC no Merge_MAGIC script is ever written or submitted and the
\* Merge_MC scripts are; with onlyMAGIC no Merge_MC script is ever written or
\* submitted and the Merge_MAGIC scripts are; whatever NSB_matching is.
C20_OnlyRequestedKind ==
    /\ analysis_type = "onlyMC" =>
          /\ "Merge_MAGIC" \notin KindsWritten \cup KindsSubmitted
          /\ script_pc = "end" => KindsWritten = {"Merge_MC"} /\ KindsSubmitted = {"Merge_MC"}
    /\ analysis_type = "onlyMAGIC" =>
          /\ "Merge_MC" \notin KindsWritten \cup KindsSubmitted
          /\ script_pc = "end" =>
                KindsWritten = {"Merge_MAGIC"} /\ KindsSubmitted = {"Merge_MAGIC"}

\* The sources processed so far that have a night a stereo script is written for.
SourcesWithNights ==
    {i \in 1..Len(source_list) :
        (i < i_source \/ script_pc = "end") /\ bash_stereo(nights[i]) # {}}

\* C19: with onlyMC no real-data stereo script is ever written or submitted and
\* the MC stereo scripts are; with onlyReal no MC stereo script is ever written
\* or submitted and the real-data scripts of the nights are.
C19_OnlyRequestedKind ==
    /\ analysis_type = "onlyMC" =>
          /\ "StereoEvents" \notin KindsWritten \cup KindsSubmitted
          /\ script_pc = "end" =>
                "StereoEvents_MC" \in KindsWritten /\ "StereoEvents_MC" \in KindsSubmitted
    /\ analysis_type = "onlyReal" =>
          /\ "StereoEvents_MC" \notin KindsWritten \cup KindsSubmitted
          /\ SourcesWithNights # {} =>
                "StereoEvents" \in KindsWritten /\ "StereoEvents" \in KindsSubmitted

\* The mean pointing of the rows of event k.
MeanPointingOf(rows, k) == MeanDirection(PointingsOf(RowsOfKey(rows, k)))

C25_OncePerEvent ==
    /\ n_checks <= 1
    /\ pc = "done" =>
          /\ n_checks = (IF check = "skipped" THEN 0 ELSE 1)
          /\ Range(reco_log) = {RowKey(event_data[i]) : i \in 1..Len(event_data)}
          /\ \A i, j \in 1..Len(reco_log) : reco_log[i] = reco_log[j] => i = j

\* A run with two events of several rows each completed after a check.
C25_Witness ==
    /\ pc = "done"
    /\ n_checks = 1
    /\ Len(reco_log) = 2
    /\ Len(event_data) > 3

\* The input columns of a row.
InputColumns(r) ==
    [obs_id |-> r.obs_id, event_id |-> r.event_id, tel_id |-> r.tel_id,
     pointing_az |-> r.pointing_az, intensity |-> r.intensity]

\* What a step taken inside the event loop does to the table.
LoopStepFrame ==
    pc \in {"loop", "reco", "write"} =>
        /\ Len(event_data') = Len(event_data)
        /\ \A i \in 1..Len(event_data) :
              /\ InputColumns(event_data'[i]) = InputColumns(event_data[i])
              /\ event_data'[i].stereo # event_data[i].stereo =>
                    /\ pc = "write"
                    /\ RowKey(event_data[i]) = CurrentKey
                    /\ event_data[i].tel_id = CurrentRow.tel_id
                    /\ event_data'[i].stereo.assigned

\* C26: a step of the event loop keeps the rows and their input columns; the
\* only row whose stereo columns it may change is the one row of the current
\* key and telescope, in the step that writes it.
C26_LoopFrame == [][LoopStepFrame]_vars

\* The first row of an event of several rows has been written, the others not
\* yet.
C26_Witness ==
    /\ pc = "write"
    /\ i_tel = 2
    /\ \E i, j \in 1..Len(event_data) :
          /\ RowKey(event_data[i]) = CurrentKey /\ event_data[i].stereo.assigned
          /\ RowKey(event_data[j]) = CurrentKey /\ ~event_data[j].stereo.assigned

\* C27: a batch left empty by the quality cuts raises no error, in the pointing
\* check or after the event loop, on real and on simulated input; its run ends
\* with an output table of zero rows.
C27_EmptyBatchCompletes ==
    (pc # "start" /\ event_data = <<>>) =>
        /\ pc \in {"check", "loop", "done"}
        /\ check \in {"pending", "skipped", "passed"}
        /\ pc = "done" => output_file = <<>>

EventsWritten(f) ==
    IF mars_filelist[f].telescope = 2 THEN writer[f].M2 ELSE writer[f].M1

\* C22: with max_events > 0, save_images writes at most max_events events of
\* each input file: at every moment, in every batch and at both data levels,
\* the number of events written of a file is at most max_events.
C22_AtMostMaxEvents ==
    (images_pc # "idle" /\ max_events > 0) =>
        \A f \in DOMAIN mars_filelist : EventsWritten(f) <= max_events

\* C23: out_file_h5 maps <stem>.simtel.gz to <stem>.h5 and out_file_h5_reco
\* maps <stem>.h5 to <stem>_reco.h5, the stem unchanged whatever characters
\* it ends with.
C23_StemUnchanged ==
    \A stem \in Stems :
        /\ (names_pc = "out_file_h5" /\ basename(in_file) = stem \o SimtelGz)
               => out = stem \o DotH5
        /\ (names_pc = "out_file_h5_reco" /\ basename(in_file) = stem \o DotH5)
               => out = stem \o RecoH5

\* The mask of the pedestal sample of the event's own monitoring data that is
\* nearest in time to the event, the first one on a tie.
MaskOfNearestSample(pedestal, event_time) ==
    check_pedestal_rms(
        pedestal.charge_std[NearestSample(pedestal.sample_time, event_time)])

\* C28: after any sequence of calls, the mask that get_hotpixels returns for
\* each telescope with data is the outlier mask of the pedestal sample of the
\* current event's monitoring data nearest in time to the event; what the
\* calculator cached at earlier events never makes it another sample's mask.
C28_MaskOfCurrentEvent ==
    hot_pc = "returned" =>
        \A t \in DOMAIN mon[hot_event.mon] :
            hotpixel_mask[t] = MaskOfNearestSample(mon[hot_event.mon][t], hot_event.time)

====
